---- MODULE Spec2Model ----
(***************************************************************************)
(* Model of the contacts API: src/src/routes/auth.py and                   *)
(* src/src/routes/contacts.py (handlers), src/src/services/auth.py (token  *)
(* codec, password verifier, current-user resolution) and                  *)
(* src/src/repository/users.py, src/src/repository/contacts.py (datastore).*)
(* Time is counted in whole seconds, as the JWT claims iat and exp are.    *)
(***************************************************************************)
EXTENDS Integers, Sequences, FiniteSets, TLC

VARIABLES users, now, issued, bt, last, reqs, contacts

vars == <<users, now, issued, bt, last, reqs, contacts>>

-----------------------------------------------------------------------------
(* Values *)

\* Python's None, for record-valued attributes (a user row, a token).
None == [none |-> TRUE]

\* A claim that a JWT payload does not carry (payload[k] raises KeyError).
Absent == "absent"

\* expires_delta=None of create_access_token / create_refresh_token.
NoDelta == -1

Emails == {"a@x.io", "b@x.io"}
Usernames == {"alice"}
Passwords == {"pass-one", "pass-two"}
Salts == {"salt1"}

\* Addresses for which Gravatar(email).get_image() raises.
GravatarRaises == {"b@x.io"}

\* config.SECRET_KEY_JWT, and the key of somebody who forges a token.
SECRET_KEY == "SECRET_KEY_JWT"
ForgerKey == "forger-key"

ACCESS_TOKEN_TTL == 900
REFRESH_TOKEN_TTL == 604800
EMAIL_TOKEN_TTL == 86400

\* The clock advances at most MaxTicks times, by one second or to just past
\* the lifetime of a refresh token.
MaxTicks == 1

\* request_email is taken while fewer than MaxTasks background tasks wait.
MaxTasks == 2
LongStep == REFRESH_TOKEN_TTL + 1
TickSteps == {1, LongStep}
NumTicks(t) == (t \div LongStep) + (t % LongStep)

-----------------------------------------------------------------------------
(* Credential verifier: passlib CryptContext(bcrypt) *)

\* pwd_context.hash: a salted one-way digest; the salt is part of the digest.
get_password_hash(password, salt) == [bcrypt |-> password, salt |-> salt]

\* Mutant: every password verifies.
verify_password_any(plain_password, hashed_password) == TRUE

\* pwd_context.verify: re-hash the plain password with the digest's salt.
verify_password(plain_password, hashed_password) ==
    get_password_hash(plain_password, hashed_password.salt) = hashed_password

-----------------------------------------------------------------------------
(* Token codec: jose.jwt with HS256 *)

\* jwt.encode: the token string is a function of the payload and the key.
\* The payload holds the claims sub, iat, exp and scope; the claim "test"
\* that login adds to its access token is read by no decoder and is left out.
jwt_encode(payload, key) == [payload |-> payload, key |-> key]

\* Mutant: exp is not looked at.
jwt_decode_no_exp(token, key, t) ==
    IF token.key # key THEN [ok |-> FALSE, payload |-> None]
    ELSE [ok |-> TRUE, payload |-> token.payload]

\* jwt.decode: JWTError on a signature made with another key or when exp is
\* in the past (jose: exp < now); otherwise the payload. Every token here
\* carries exp.
jwt_decode(token, key, t) ==
    IF token.key # key THEN [ok |-> FALSE, payload |-> None]
    ELSE IF token.payload.exp < t
         THEN [ok |-> FALSE, payload |-> None]
         ELSE [ok |-> TRUE, payload |-> token.payload]

\* `if expires_delta:` is false for None and for 0.
Truthy(expires_delta) == expires_delta # NoDelta /\ expires_delta # 0

\* t_exp and t_iat are the two readings of datetime.utcnow().
create_access_token(data, expires_delta, t_exp, t_iat) ==
    LET expire == IF Truthy(expires_delta) THEN t_exp + expires_delta
                  ELSE t_exp + ACCESS_TOKEN_TTL
    IN jwt_encode([sub |-> data.sub, iat |-> t_iat,
                   exp |-> expire, scope |-> "access_token"], SECRET_KEY)

create_refresh_token(data, expires_delta, t_exp, t_iat) ==
    LET expire == IF Truthy(expires_delta) THEN t_exp + expires_delta
                  ELSE t_exp + REFRESH_TOKEN_TTL
    IN jwt_encode([sub |-> data.sub, iat |-> t_iat,
                   exp |-> expire, scope |-> "refresh_token"], SECRET_KEY)

create_email_token(data, t_exp, t_iat) ==
    jwt_encode([sub |-> data.sub, iat |-> t_iat,
                exp |-> t_exp + EMAIL_TOKEN_TTL, scope |-> Absent], SECRET_KEY)

\* The outcome of decode_refresh_token: the subject, or the HTTP error. A
\* payload without a scope or sub claim raises KeyError, which the handler
\* does not catch (500).
decode_refresh_token(refresh_token, t) ==
    LET d == jwt_decode(refresh_token, SECRET_KEY, t) IN
    IF ~d.ok
    THEN [status |-> 401, detail |-> "Could not validate credentials", email |-> Absent]
    ELSE IF d.payload.scope = Absent
    THEN [status |-> 500, detail |-> "Internal Server Error", email |-> Absent]
    ELSE IF d.payload.scope = "refresh_token"
    THEN IF d.payload.sub = Absent
         THEN [status |-> 500, detail |-> "Internal Server Error", email |-> Absent]
         ELSE [status |-> 200, detail |-> "", email |-> d.payload.sub]
    ELSE [status |-> 401, detail |-> "Invalid scope for token", email |-> Absent]

\* The outcome of get_email_from_token: any validly signed, unexpired token
\* with a sub claim is accepted, whatever its scope.
get_email_from_token(token, t) ==
    LET d == jwt_decode(token, SECRET_KEY, t) IN
    IF ~d.ok
    THEN [status |-> 422, detail |-> "Invalid token for email verification", email |-> Absent]
    ELSE IF d.payload.sub = Absent
    THEN [status |-> 500, detail |-> "Internal Server Error", email |-> Absent]
    ELSE [status |-> 200, detail |-> "", email |-> d.payload.sub]

-----------------------------------------------------------------------------
(* Datastore: repository/users.py over the users table *)

get_user_by_email(email, db) == IF email \in DOMAIN db THEN db[email] ELSE None

\* The autoincremented primary key of a new row.
NextId(db) == Cardinality({e \in DOMAIN db : db[e] # None}) + 1

\* Gravatar(email).get_image(): a function of the address; None when it raises.
get_image(email) ==
    IF email \in GravatarRaises THEN None ELSE [gravatar |-> email]

\* Mutant: a new row starts confirmed.
create_user_confirmed(body, db) ==
    [db EXCEPT ![body.email] =
        [id |-> NextId(db), username |-> body.username, email |-> body.email,
         password |-> body.password, avatar |-> get_image(body.email),
         confirmed |-> TRUE, refresh_token |-> None]]

\* create_user: a new row; confirmed and refresh_token take the column defaults.
create_user(body, db) ==
    LET new_user == [id |-> NextId(db), username |-> body.username,
                     email |-> body.email, password |-> body.password,
                     avatar |-> get_image(body.email), confirmed |-> FALSE,
                     refresh_token |-> None]
    IN [db EXCEPT ![body.email] = new_user]

\* Mutant: the assignment is never committed.
update_token_no_commit(user, token, db) == db

\* Mutant: the commit also writes confirmed back to its column default.
update_token_resets_confirmed(user, token, db) ==
    [db EXCEPT ![user.email] =
        [db[user.email] EXCEPT !.refresh_token = token, !.confirmed = FALSE]]

\* update_token: user.refresh_token = token; commit.
update_token(user, token, db) ==
    [db EXCEPT ![user.email] = [db[user.email] EXCEPT !.refresh_token = token]]

\* repository confirmed_email: user.confirmed = True; commit.
repo_confirmed_email(email, db) ==
    [db EXCEPT ![email] = [db[email] EXCEPT !.confirmed = TRUE]]

\* Mutant: the whole row is serialised.
UserResponse_whole_row(user) == user

\* The record the response_model UserResponse serialises.
UserResponse(user) ==
    [id |-> user.id, username |-> user.username, email |-> user.email,
     avatar |-> user.avatar, confirmed |-> user.confirmed]

-----------------------------------------------------------------------------
(* Current-user resolution: Auth.get_current_user over the session cache   *)
(* (redis) and the users table. Nothing in these sources writes the cache: *)
(* what it holds under a key, and whether the server answers, is given by  *)
(* the environment for each request.                                       *)

\* pickle.dumps / pickle.loads of a user row.
pickle_dumps(user) == [pickled |-> user]
pickle_loads(bytes) == bytes.pickled

\* self.cache.get(key): the bytes under the key, None when there are none;
\* redis.ConnectionError when the server does not answer.
cache_get(cache, key) ==
    IF ~cache.up THEN [ok |-> FALSE, value |-> None]
    ELSE [ok |-> TRUE, value |-> cache.data[key]]

CREDENTIALS == "Could not validate credentials"

\* Mutant: the users table is read whatever the cache holds.
resolve_user_no_cache(email, db, cache) ==
    LET user == get_user_by_email(email, db) IN
    IF user = None
    THEN [status |-> 401, detail |-> CREDENTIALS, user |-> None]
    ELSE [status |-> 200, detail |-> "", user |-> user]

\* Mutant: a user without a stored refresh token is not resolved.
resolve_user_needs_session(email, db, cache) ==
    LET user == get_user_by_email(email, db) IN
    IF user = None \/ user.refresh_token = None
    THEN [status |-> 401, detail |-> CREDENTIALS, user |-> None]
    ELSE [status |-> 200, detail |-> "", user |-> user]

\* Lines 179-192: the cache under the email first, then the users table.
resolve_user(email, db, cache) ==
    LET got == cache_get(cache, email) IN
    IF ~got.ok
    THEN [status |-> 500, detail |-> "Internal Server Error", user |-> None]
    ELSE IF got.value = None
    THEN LET user == get_user_by_email(email, db) IN
         IF user = None
         THEN [status |-> 401, detail |-> CREDENTIALS, user |-> None]
         ELSE [status |-> 200, detail |-> "", user |-> user]
    ELSE [status |-> 200, detail |-> "", user |-> pickle_loads(got.value)]

\* Mutant: the scope claim is not looked at.
get_current_user_any_scope(token, db, cache, t) ==
    LET d == jwt_decode(token, SECRET_KEY, t) IN
    IF ~d.ok
    THEN [status |-> 401, detail |-> CREDENTIALS, user |-> None]
    ELSE IF d.payload.sub = Absent
    THEN [status |-> 500, detail |-> "Internal Server Error", user |-> None]
    ELSE resolve_user(d.payload.sub, db, cache)

\* The outcome of get_current_user: the user, or the HTTP error. Only
\* JWTError is caught: a payload without a scope or sub claim raises KeyError
\* and a cache that does not answer raises ConnectionError (500).
get_current_user(token, db, cache, t) ==
    LET d == jwt_decode(token, SECRET_KEY, t) IN
    IF ~d.ok
    THEN [status |-> 401, detail |-> CREDENTIALS, user |-> None]
    ELSE IF d.payload.scope = Absent
    THEN [status |-> 500, detail |-> "Internal Server Error", user |-> None]
    ELSE IF d.payload.scope # "access_token"
    THEN [status |-> 401, detail |-> CREDENTIALS, user |-> None]
    ELSE IF d.payload.sub = Absent
    THEN [status |-> 500, detail |-> "Internal Server Error", user |-> None]
    ELSE resolve_user(d.payload.sub, db, cache)

-----------------------------------------------------------------------------
(* Route handlers of routes/auth.py, as functions of the request, the      *)
(* users table db and the clock reading t. Each yields the response, the   *)
(* table after the request, the tokens handed to the client (out) and the  *)
(* background tasks added (tasks).                                         *)

ACCOUNT_EXIST == "Account already exists."

Response(op, status, detail, access_token, refresh_token, user) ==
    [op |-> op, status |-> status, detail |-> detail,
     access_token |-> access_token, refresh_token |-> refresh_token, user |-> user]

\* raise HTTPException(status_code, detail): nothing is written.
Raise(op, status, detail, db) ==
    [resp |-> Response(op, status, detail, None, None, None),
     db |-> db, out |-> {}, tasks |-> <<>>]

\* Mutant: the user is inserted and no mail task is added.
signup_create_no_task(email, username, password, salt, db) ==
    LET body == [username |-> username, email |-> email,
                 password |-> get_password_hash(password, salt)]
        db2 == create_user(body, db)
    IN [resp |-> Response("signup", 201, "", None, None, UserResponse(db2[email])),
        db |-> db2, out |-> {}, tasks |-> <<>>]

\* Mutant: the new user is handed an access token with the response.
signup_create_logs_in(email, username, password, salt, db) ==
    LET body == [username |-> username, email |-> email,
                 password |-> get_password_hash(password, salt)]
        db2 == create_user(body, db)
        new_user == db2[email]
    IN [resp |-> Response("signup", 201, "", None, None, UserResponse(new_user)),
        db |-> db2,
        out |-> {create_access_token([sub |-> email], NoDelta, 0, 0)},
        tasks |-> <<[email |-> new_user.email, username |-> new_user.username]>>]

\* signup, lines 35-38: hash the password, insert the user, add the mail task.
signup_create(email, username, password, salt, db) ==
    LET body == [username |-> username, email |-> email,
                 password |-> get_password_hash(password, salt)]
        db2 == create_user(body, db)
        new_user == db2[email]
    IN [resp |-> Response("signup", 201, "", None, None, UserResponse(new_user)),
        db |-> db2, out |-> {},
        tasks |-> <<[email |-> new_user.email, username |-> new_user.username]>>]

\* Mutant: the address is not looked up first.
signup_no_lookup(email, username, password, salt, db) ==
    signup_create(email, username, password, salt, db)

\* POST /auth/signup
signup(email, username, password, salt, db) ==
    LET exist_user == get_user_by_email(email, db) IN
    IF exist_user # None
    THEN Raise("signup", 409, ACCOUNT_EXIST, db)
    ELSE signup_create(email, username, password, salt, db)

\* login, lines 65-69: make the pair, store the refresh token, answer.
login_tokens(user, db, t) ==
    LET access_token ==
            create_access_token([sub |-> user.email],
                                NoDelta, t, t)
        refresh_token ==
            create_refresh_token([sub |-> user.email],
                                 NoDelta, t, t)
    IN [resp |-> Response("login", 200, "bearer", access_token,
                          refresh_token, None),
        db |-> update_token(user, refresh_token, db),
        out |-> {access_token, refresh_token}, tasks |-> <<>>]

\* Mutant: the password is checked before the confirmed flag.
login_password_first(username, password, db, t) ==
    LET user == get_user_by_email(username, db) IN
    IF user = None
    THEN Raise("login", 401, "Invalid email", db)
    ELSE IF ~verify_password(password, user.password)
    THEN Raise("login", 401, "Invalid password", db)
    ELSE IF ~user.confirmed
    THEN Raise("login", 401, "Email not confirmed", db)
    ELSE login_tokens(user, db, t)

\* Mutant: a wrong password ends the user's session.
login_wrong_password_logs_out(username, password, db, t) ==
    LET user == get_user_by_email(username, db) IN
    IF user = None
    THEN Raise("login", 401, "Invalid email", db)
    ELSE IF ~user.confirmed
    THEN Raise("login", 401, "Email not confirmed", db)
    ELSE IF ~verify_password(password, user.password)
    THEN [Raise("login", 401, "Invalid password", db)
             EXCEPT !.db = update_token(user, None, db)]
    ELSE login_tokens(user, db, t)

\* Mutant: an unknown email is answered like a wrong password.
login_unknown_as_wrong_password(username, password, db, t) ==
    LET user == get_user_by_email(username, db) IN
    IF user = None
    THEN Raise("login", 401, "Invalid password", db)
    ELSE IF ~user.confirmed
    THEN Raise("login", 401, "Email not confirmed", db)
    ELSE IF ~verify_password(password, user.password)
    THEN Raise("login", 401, "Invalid password", db)
    ELSE login_tokens(user, db, t)

\* Mutant: the confirmed flag is not looked at.
login_no_confirmed_check(username, password, db, t) ==
    LET user == get_user_by_email(username, db) IN
    IF user = None
    THEN Raise("login", 401, "Invalid email", db)
    ELSE IF ~verify_password(password, user.password)
    THEN Raise("login", 401, "Invalid password", db)
    ELSE login_tokens(user, db, t)

\* POST /auth/login
login(username, password, db, t) ==
    LET user == get_user_by_email(username, db) IN
    IF user = None
    THEN Raise("login", 401, "Invalid email", db)
    ELSE IF ~user.confirmed
    THEN Raise("login", 401, "Email not confirmed", db)
    ELSE IF ~verify_password(password, user.password)
    THEN Raise("login", 401, "Invalid password", db)
    ELSE login_tokens(user, db, t)

\* refresh_token, lines 99-102: make the pair, store the refresh token, answer.
refresh_tokens(user, email, db, t) ==
    LET access_token ==
            create_access_token([sub |-> email], NoDelta, t, t)
        new_token ==
            create_refresh_token([sub |-> email], NoDelta, t, t)
    IN [resp |-> Response("refresh_token", 200, "bearer", access_token,
                          new_token, None),
        db |-> update_token(user, new_token, db),
        out |-> {access_token, new_token}, tasks |-> <<>>]

\* Mutant: the token is not compared with the stored one.
refresh_token_no_compare(token, db, t) ==
    LET dec == decode_refresh_token(token, t) IN
    IF dec.status # 200
    THEN Raise("refresh_token", dec.status, dec.detail, db)
    ELSE LET user == get_user_by_email(dec.email, db) IN
         IF user = None
         THEN Raise("refresh_token", 500, "Internal Server Error", db)
         ELSE refresh_tokens(user, dec.email, db, t)

\* Mutant: a mismatch is answered 401 but the stored token is kept.
refresh_token_no_clear(token, db, t) ==
    LET dec == decode_refresh_token(token, t) IN
    IF dec.status # 200
    THEN Raise("refresh_token", dec.status, dec.detail, db)
    ELSE LET user == get_user_by_email(dec.email, db) IN
         IF user = None
         THEN Raise("refresh_token", 500, "Internal Server Error", db)
         ELSE IF user.refresh_token # token
         THEN Raise("refresh_token", 401, "Invalid refresh token", db)
         ELSE refresh_tokens(user, dec.email, db, t)

\* GET /auth/refresh_token
refresh_token(token, db, t) ==
    LET dec == decode_refresh_token(token, t) IN
    IF dec.status # 200
    THEN Raise("refresh_token", dec.status, dec.detail, db)
    ELSE LET email == dec.email
             user == get_user_by_email(email, db)
         IN IF user = None
            THEN \* user.refresh_token on None raises AttributeError
                 Raise("refresh_token", 500, "Internal Server Error", db)
            ELSE IF user.refresh_token # token
            THEN [resp |-> Response("refresh_token", 401, "Invalid refresh token",
                                    None, None, None),
                  db |-> update_token(user, None, db), out |-> {}, tasks |-> <<>>]
            ELSE refresh_tokens(user, email, db, t)

\* Mutant: an already confirmed user is answered like a first confirmation.
confirmed_email_no_already(token, db, t) ==
    LET dec == get_email_from_token(token, t) IN
    IF dec.status # 200
    THEN Raise("confirmed_email", dec.status, dec.detail, db)
    ELSE LET user == get_user_by_email(dec.email, db) IN
         IF user = None
         THEN Raise("confirmed_email", 400, "Verification error", db)
         ELSE [resp |-> Response("confirmed_email", 200, "Email confirmed",
                                 None, None, None),
               db |-> repo_confirmed_email(dec.email, db),
               out |-> {}, tasks |-> <<>>]

\* GET /auth/confirmed_email/{token}
confirmed_email(token, db, t) ==
    LET dec == get_email_from_token(token, t) IN
    IF dec.status # 200
    THEN Raise("confirmed_email", dec.status, dec.detail, db)
    ELSE LET user == get_user_by_email(dec.email, db) IN
         IF user = None
         THEN Raise("confirmed_email", 400, "Verification error", db)
         ELSE IF user.confirmed
         THEN Raise("confirmed_email", 200, "Your email is already confirmed", db)
         ELSE [resp |-> Response("confirmed_email", 200, "Email confirmed",
                                 None, None, None),
               db |-> repo_confirmed_email(dec.email, db),
               out |-> {}, tasks |-> <<>>]

\* POST /auth/request_email
request_email(email, db) ==
    LET user == get_user_by_email(email, db) IN
    IF user = None
    THEN \* user.confirmed on None raises AttributeError
         Raise("request_email", 500, "Internal Server Error", db)
    ELSE IF user.confirmed
    THEN Raise("request_email", 200, "Your email is already confirmed", db)
    ELSE [resp |-> Response("request_email", 200,
                            "Check your email for confirmation.", None, None, None),
          db |-> db, out |-> {},
          tasks |-> <<[email |-> user.email, username |-> user.username]>>]

-----------------------------------------------------------------------------
(* Values of the contacts table: text, dates, integers passed by position  *)

\* A str, as the sequence of its characters; an int where a parameter can
\* hold values of several types.
Str(chars) == [str |-> chars]
IntVal(n) == [int |-> n]

\* datetime.date
Date(y, m, d) == [year |-> y, month |-> m, day |-> d]

\* The date at clock second 0; the calendar covers the years from its year on.
EpochDate == Date(2024, 12, 28)
BaseYear == EpochDate.year

IsLeap(y) == (y % 4 = 0 /\ y % 100 # 0) \/ y % 400 = 0

DaysInMonth(y, m) ==
    IF m = 2 THEN (IF IsLeap(y) THEN 29 ELSE 28)
    ELSE IF m \in {4, 6, 9, 11} THEN 30 ELSE 31

DaysInYear(y) == IF IsLeap(y) THEN 366 ELSE 365


RECURSIVE DaysBeforeYear(_)
DaysBeforeYear(y) ==
    IF y <= BaseYear THEN 0 ELSE DaysBeforeYear(y - 1) + DaysInYear(y - 1)

RECURSIVE DaysBeforeMonth(_, _)
DaysBeforeMonth(y, m) ==
    IF m <= 1 THEN 0 ELSE DaysBeforeMonth(y, m - 1) + DaysInMonth(y, m - 1)

\* date.toordinal, counted from the first day of BaseYear.
toordinal(d) == DaysBeforeYear(d.year) + DaysBeforeMonth(d.year, d.month) + d.day

RECURSIVE YearOf(_, _)
YearOf(n, y) == IF n <= DaysBeforeYear(y + 1) THEN y ELSE YearOf(n, y + 1)

RECURSIVE MonthOf(_, _, _)
MonthOf(n, y, m) ==
    IF n <= DaysBeforeMonth(y, m + 1) THEN m ELSE MonthOf(n, y, m + 1)

\* date.fromordinal
fromordinal(n) ==
    LET y == YearOf(n, BaseYear)
        r == n - DaysBeforeYear(y)
        m == MonthOf(r, y, 1)
    IN Date(y, m, r - DaysBeforeMonth(y, m))

\* date + timedelta(days=k)
AddDays(d, k) == fromordinal(toordinal(d) + k)

\* d1 <= d2 on dates: year, then month, then day.
DateLeq(d1, d2) ==
    \/ d1.year < d2.year
    \/ d1.year = d2.year /\ d1.month < d2.month
    \/ d1.year = d2.year /\ d1.month = d2.month /\ d1.day <= d2.day

\* datetime.today().date() at clock second t.
SecondsPerDay == 86400
today_date(t) == AddDays(EpochDate, t \div SecondsPerDay)

\* str.lower on the letters the model uses.
LowerChar(c) ==
    CASE c = "A" -> "a" [] c = "B" -> "b" [] c = "S" -> "s" [] c = "Z" -> "z"
      [] OTHER -> c
lower(chars) == [i \in 1..Len(chars) |-> LowerChar(chars[i])]

\* sub occurs in chars.
Contains(chars, sub) ==
    \E i \in 0..(Len(chars) - Len(sub)) : SubSeq(chars, i + 1, i + Len(sub)) = sub

RECURSIVE Digits(_)
Digits(n) == IF n < 10 THEN <<ToString(n)>>
             ELSE Digits(n \div 10) \o <<ToString(n % 10)>>

\* f'{x}' for a str or an int.
format(x) == IF "str" \in DOMAIN x THEN x.str ELSE Digits(x.int)

\* `if x:` for None, a str or an int.
IsTrue(x) ==
    IF x = None THEN FALSE
    ELSE IF "str" \in DOMAIN x THEN Len(x.str) > 0
    ELSE x.int # 0

\* column.ilike(f'%{x}%'): NULL matches nothing.
ilike(column, x) ==
    column # None /\ Contains(lower(column.str), lower(format(x)))

-----------------------------------------------------------------------------
(* Datastore: repository/contacts.py over the contacts table. The table is *)
(* the sequence of its rows by primary key; a deleted row leaves None.     *)

ContactFields ==
    {"name", "secondname", "email", "phone", "born_day", "additional_data"}

\* The rows of the table, in primary-key order.
Rows(db) == SelectSeq(db, LAMBDA r : r # None)

Min(a, b) == IF a <= b THEN a ELSE b

\* stmt.offset(offset).limit(limit)
OffsetLimit(rows, offset, limit) ==
    SubSeq(rows, offset + 1, Min(Len(rows), offset + limit))

\* get_contacts: user.id raises AttributeError when user is not a User.
repo_get_contacts(limit, offset, db, user, name, secondname, email, user_id) ==
    IF "id" \notin DOMAIN user
    THEN [ok |-> FALSE, rows |-> <<>>]
    ELSE LET Match(r) ==
                 /\ r.user_id = user.id
                 /\ user_id # None => r.user_id = user_id.int
                 /\ IsTrue(name) => ilike(r.name, name)
                 /\ IsTrue(secondname) => ilike(r.secondname, secondname)
                 /\ IsTrue(email) => ilike(r.email, email)
         IN [ok |-> TRUE,
             rows |-> OffsetLimit(SelectSeq(Rows(db), Match), offset, limit)]

\* get_contacts_birthday: born_day is compared as a full date.
repo_get_contacts_birthday(db, user_id, today) ==
    LET seven_days_later == AddDays(today, 7)
        Match(r) ==
            /\ r.user_id = user_id
            /\ r.born_day # None
            /\ \/ DateLeq(today, r.born_day) /\ DateLeq(r.born_day, seven_days_later)
               \/ /\ DateLeq(Date(today.year, 1, 1), r.born_day)
                  /\ DateLeq(r.born_day, Date(today.year, 1, 7))
                  /\ today.month = 12
    IN SelectSeq(Rows(db), Match)

\* Mutant: the row is selected by its id alone.
select_contact_any_owner(contact_id, db, user_id) ==
    IF contact_id \in 1..Len(db) /\ db[contact_id] # None
    THEN db[contact_id]
    ELSE None

\* select(ContactBook).filter_by(id=contact_id, user_id=user_id), then
\* scalar_one_or_none(): the statement of get_contact_by_id, update_contact
\* and delete_contact.
select_contact(contact_id, db, user_id) ==
    IF contact_id \in 1..Len(db) /\ db[contact_id] # None
       /\ db[contact_id].user_id = user_id
    THEN db[contact_id]
    ELSE None

repo_get_contact_by_id(contact_id, db, user_id) ==
    select_contact(contact_id, db, user_id)

\* Mutant: an owner named in the supplied data is kept.
repo_create_contact_keeps_given_owner(body, db, user_id) ==
    LET contact == [f \in ContactFields \cup {"id", "user_id"} |->
                      IF f = "id" THEN Len(db) + 1
                      ELSE IF f \in DOMAIN body THEN body[f]
                      ELSE IF f = "user_id" THEN user_id
                      ELSE None]
    IN [contact |-> contact, db |-> Append(db, contact)]

\* create_contact: the supplied fields, the owner, a new primary key.
repo_create_contact(body, db, user_id) ==
    LET contact == [f \in ContactFields \cup {"id", "user_id"} |->
                      IF f = "id" THEN Len(db) + 1
                      ELSE IF f = "user_id" THEN user_id
                      ELSE IF f \in DOMAIN body THEN body[f]
                      ELSE None]
    IN [contact |-> contact, db |-> Append(db, contact)]

\* Mutant: the row is replaced by the body, fields not supplied become null.
repo_update_contact_replaces(contact_id, body, db, user_id) ==
    LET contact == select_contact(contact_id, db, user_id) IN
    IF contact = None
    THEN [contact |-> None, db |-> db]
    ELSE LET updated == [f \in DOMAIN contact |->
                           IF f \in DOMAIN body THEN body[f]
                           ELSE IF f \in ContactFields THEN None
                           ELSE contact[f]]
         IN [contact |-> updated, db |-> [db EXCEPT ![contact_id] = updated]]

\* update_contact: setattr for every supplied field of an owned row.
repo_update_contact(contact_id, body, db, user_id) ==
    LET contact == select_contact(contact_id, db, user_id) IN
    IF contact = None
    THEN [contact |-> None, db |-> db]
    ELSE LET updated == [f \in DOMAIN contact |->
                           IF f \in DOMAIN body THEN body[f] ELSE contact[f]]
         IN [contact |-> updated, db |-> [db EXCEPT ![contact_id] = updated]]

\* Mutant: the row found is returned and stays in the table.
repo_delete_contact_keeps_row(contact_id, db, user_id) ==
    [contact |-> select_contact(contact_id, db, user_id), db |-> db]

\* delete_contact: an owned row is deleted and returned.
repo_delete_contact(contact_id, db, user_id) ==
    LET contact == select_contact(contact_id, db, user_id) IN
    IF contact = None
    THEN [contact |-> None, db |-> db]
    ELSE [contact |-> contact, db |-> [db EXCEPT ![contact_id] = None]]

-----------------------------------------------------------------------------
(* Route handlers of routes/contacts.py, as functions of the request, the  *)
(* users table, the cache, the contacts table cdb and the clock reading t. *)
(* Each yields the response and the contacts table after the request.      *)

CONTACT_NOT_FOUND == "Contact not found"

\* The response, and the user that get_current_user resolved for the request.
Reply(op, status, detail, body, current_user) ==
    [op |-> op, status |-> status, detail |-> detail, body |-> body,
     current_user |-> current_user]

\* The dependency get_current_user raised: the handler body does not run.
Denied(op, auth, cdb) ==
    [resp |-> Reply(op, auth.status, auth.detail, None, None), contacts |-> cdb]

\* GET /contacts/birthday
birthday(token, db, cache, cdb, t) ==
    LET auth == get_current_user(token, db, cache, t) IN
    IF auth.status # 200 THEN Denied("birthday", auth, cdb)
    ELSE [resp |-> Reply("birthday", 200, "",
                         repo_get_contacts_birthday(cdb, auth.user.id, today_date(t)),
                         auth.user),
          contacts |-> cdb]

\* GET /contacts/: the arguments reach the repository by position, so name
\* arrives as user, secondname as name, email as secondname and the user's
\* id as email; any exception is answered 500.
get_contacts(limit, offset, name, secondname, email, token, db, cache, cdb, t) ==
    LET auth == get_current_user(token, db, cache, t) IN
    IF auth.status # 200 THEN Denied("get_contacts", auth, cdb)
    ELSE LET r == repo_get_contacts(limit, offset, cdb, name, secondname, email,
                                    IntVal(auth.user.id), None)
         IN IF r.ok
            THEN [resp |-> Reply("get_contacts", 200, "", r.rows, auth.user),
                  contacts |-> cdb]
            ELSE [resp |-> Reply("get_contacts", 500, "Internal server error",
                                 None, auth.user),
                  contacts |-> cdb]

\* GET /contacts/{contact_id}
get_contact_by_id(contact_id, token, db, cache, cdb, t) ==
    LET auth == get_current_user(token, db, cache, t) IN
    IF auth.status # 200 THEN Denied("get_contact_by_id", auth, cdb)
    ELSE LET contact == repo_get_contact_by_id(contact_id, cdb, auth.user.id) IN
         IF contact = None
         THEN [resp |-> Reply("get_contact_by_id", 404, CONTACT_NOT_FOUND,
                              None, auth.user),
               contacts |-> cdb]
         ELSE [resp |-> Reply("get_contact_by_id", 200, "", contact, auth.user),
               contacts |-> cdb]

\* POST /contacts/: the dependency RateLimiter(times=3, seconds=60) runs
\* before get_current_user. Its counter lives in the redis server of the
\* cache and counts every POST of the client's address: whether this request
\* is over the limit is given by the environment.
create_contact(limited, body, token, db, cache, cdb, t) ==
    IF ~cache.up
    THEN [resp |-> Reply("create_contact", 500, "Internal Server Error", None, None),
          contacts |-> cdb]
    ELSE IF limited
    THEN [resp |-> Reply("create_contact", 429, "Too Many Requests", None, None),
          contacts |-> cdb]
    ELSE LET auth == get_current_user(token, db, cache, t) IN
         IF auth.status # 200 THEN Denied("create_contact", auth, cdb)
         ELSE LET r == repo_create_contact(body, cdb, auth.user.id) IN
              [resp |-> Reply("create_contact", 201, "", r.contact, auth.user),
               contacts |-> r.db]

\* PUT /contacts/{contact_id}
update_contact(contact_id, body, token, db, cache, cdb, t) ==
    LET auth == get_current_user(token, db, cache, t) IN
    IF auth.status # 200 THEN Denied("update_contact", auth, cdb)
    ELSE LET r == repo_update_contact(contact_id, body, cdb, auth.user.id) IN
         IF r.contact = None
         THEN [resp |-> Reply("update_contact", 404, CONTACT_NOT_FOUND,
                              None, auth.user),
               contacts |-> r.db]
         ELSE [resp |-> Reply("update_contact", 200, "", r.contact, auth.user),
               contacts |-> r.db]

\* DELETE /contacts/{contact_id}: 204 whatever the repository returns.
delete_contact(contact_id, token, db, cache, cdb, t) ==
    LET auth == get_current_user(token, db, cache, t) IN
    IF auth.status # 200 THEN Denied("delete_contact", auth, cdb)
    ELSE LET r == repo_delete_contact(contact_id, cdb, auth.user.id) IN
         [resp |-> Reply("delete_contact", 204, "", None, auth.user),
          contacts |-> r.db]

-----------------------------------------------------------------------------
(* The system: the users table, the clock, the tokens clients hold, the    *)
(* background tasks not yet run, the last response, requests in flight.    *)

\* Tokens signed with a key that is not the service's.
ForgedTokens ==
    {jwt_encode([sub |-> e, iat |-> 0, exp |-> REFRESH_TOKEN_TTL,
                 scope |-> "refresh_token"], ForgerKey) : e \in Emails}

\* What a client can present: a token the service handed out, or a forgery.
Presentable == issued \cup ForgedTokens

ReqIds == {1, 2}
Idle == [pc |-> "idle", token |-> None, user |-> None, access_token |-> None,
         new_token |-> None, status |-> 0, detail |-> ""]

Init ==
    /\ users = [e \in Emails |-> None]
    /\ now = 0
    /\ issued = {}
    /\ bt = <<>>
    /\ last = Response("start", 0, "", None, None, None)
    /\ reqs = [i \in ReqIds |-> Idle]
    /\ contacts = <<>>

\* A request handled from start to end: r is the handler's result.
Handle(r) ==
    /\ users' = r.db
    /\ issued' = issued \cup r.out
    /\ bt' = bt \o r.tasks
    /\ last' = r.resp
    /\ UNCHANGED <<now, reqs, contacts>>

\* The clock.
Tick(d) ==
    /\ NumTicks(now) < MaxTicks
    /\ now' = now + d
    /\ UNCHANGED <<users, issued, bt, last, reqs, contacts>>

PostSignup(email, username, password, salt) ==
    Handle(signup(email, username, password, salt, users))

PostLogin(username, password) == Handle(login(username, password, users, now))

GetRefreshToken(token) == Handle(refresh_token(token, users, now))

GetConfirmedEmail(token) == Handle(confirmed_email(token, users, now))

PostRequestEmail(email) ==
    /\ Len(bt) < MaxTasks
    /\ Handle(request_email(email, users))

\* The background task send_email(email, username, host) added by signup or
\* request_email: it
\* makes the confirmation token and mails it; a failed delivery is swallowed.
send_email(i, delivered) ==
    /\ i \in 1..Len(bt)
    /\ bt' = SubSeq(bt, 1, i - 1) \o SubSeq(bt, i + 1, Len(bt))
    /\ issued' = IF delivered
                 THEN issued \cup {create_email_token([sub |-> bt[i].email], now, now)}
                 ELSE issued
    /\ UNCHANGED <<users, now, last, reqs, contacts>>

Next ==
    \/ \E d \in TickSteps : Tick(d)
    \/ \E e \in Emails, u \in Usernames, p \in Passwords, s \in Salts :
          PostSignup(e, u, p, s)
    \/ \E e \in Emails, p \in Passwords : PostLogin(e, p)
    \/ \E t \in Presentable : GetRefreshToken(t)
    \/ \E t \in Presentable : GetConfirmedEmail(t)
    \/ \E i \in 1..Len(bt), ok \in BOOLEAN : send_email(i, ok)

Spec == Init /\ [][Next]_vars

\* The confirmation-mail flow: signup, request_email, the mail task and
\* confirmed_email.
NextMail ==
    \/ \E d \in TickSteps : Tick(d)
    \/ \E e \in Emails, u \in Usernames, p \in Passwords, s \in Salts :
          PostSignup(e, u, p, s)
    \/ \E e \in Emails : PostRequestEmail(e)
    \/ \E t \in Presentable : GetConfirmedEmail(t)
    \/ \E i \in 1..Len(bt), ok \in BOOLEAN : send_email(i, ok)

SpecMail == Init /\ [][NextMail]_vars

-----------------------------------------------------------------------------
(* Concurrent requests. Every request has its own database session: the    *)
(* row it reads is a snapshot, and each await on the database (the SELECT  *)
(* of get_user_by_email, the commit of update_token) is a point where      *)
(* other requests run.                                                     *)

\* A state of Spec: one user has signed up, confirmed and logged in at time 0.
ConcUser == "a@x.io"
ConcMail == create_email_token([sub |-> ConcUser], 0, 0)
ConcSignedUp ==
    signup(ConcUser, "alice", "pass-one", "salt1", [e \in Emails |-> None]).db
ConcLogin ==
    login(ConcUser, "pass-one", confirmed_email(ConcMail, ConcSignedUp, 0).db, 0)

InitConc ==
    /\ users = ConcLogin.db
    /\ now = 0
    /\ issued = {ConcMail} \cup ConcLogin.out
    /\ bt = <<>>
    /\ last = ConcLogin.resp
    /\ reqs = [i \in ReqIds |-> Idle]
    /\ contacts = <<>>

\* The request ends with this response.
Done(i, status, detail, access_token, new_token) ==
    /\ reqs' = [reqs EXCEPT ![i].pc = "done", ![i].status = status,
                            ![i].detail = detail,
                            ![i].access_token = access_token,
                            ![i].new_token = new_token]
    /\ last' = Response("refresh_token", status, detail, access_token, new_token, None)

\* refresh_token, lines 92-93: decode the token and SELECT the user.
RefreshRead(i, token) ==
    LET dec == decode_refresh_token(token, now) IN
    /\ reqs[i].pc = "idle"
    /\ IF dec.status # 200
       THEN /\ reqs' = [reqs EXCEPT ![i].pc = "done", ![i].token = token,
                                    ![i].status = dec.status,
                                    ![i].detail = dec.detail]
            /\ last' = Response("refresh_token", dec.status, dec.detail,
                                None, None, None)
       ELSE /\ reqs' = [reqs EXCEPT ![i].pc = "read", ![i].token = token,
                                    ![i].user = get_user_by_email(dec.email, users)]
            /\ UNCHANGED last
    /\ UNCHANGED <<users, now, issued, bt, contacts>>

\* Lines 94 and 99-100: compare the snapshot with the token; make the new pair.
RefreshCompare(i) ==
    LET user == reqs[i].user
        token == reqs[i].token
    IN
    /\ reqs[i].pc = "read"
    /\ IF user = None
       THEN Done(i, 500, "Internal Server Error", None, None)
       ELSE IF user.refresh_token # token
       THEN reqs' = [reqs EXCEPT ![i].pc = "clear"] /\ UNCHANGED last
       ELSE /\ reqs' = [reqs EXCEPT
                ![i].pc = "store",
                ![i].access_token =
                    create_access_token([sub |-> user.email],
                                        NoDelta, now, now),
                ![i].new_token =
                    create_refresh_token([sub |-> user.email],
                                         NoDelta, now, now)]
            /\ UNCHANGED last
    /\ UNCHANGED <<users, now, issued, bt, contacts>>

\* Lines 95-96 or 101-102: the commit of update_token, then the response.
RefreshCommit(i) ==
    /\ reqs[i].pc \in {"clear", "store"}
    /\ IF reqs[i].pc = "clear"
       THEN /\ users' = update_token(reqs[i].user, None, users)
            /\ Done(i, 401, "Invalid refresh token", None, None)
            /\ UNCHANGED issued
       ELSE /\ users' = update_token(reqs[i].user, reqs[i].new_token, users)
            /\ Done(i, 200, "bearer", reqs[i].access_token, reqs[i].new_token)
            /\ issued' = issued \cup {reqs[i].access_token, reqs[i].new_token}
    /\ UNCHANGED <<now, bt, contacts>>

NextConc ==
    \/ \E d \in TickSteps : Tick(d)
    \/ \E i \in ReqIds, t \in Presentable : RefreshRead(i, t)
    \/ \E i \in ReqIds : RefreshCompare(i)
    \/ \E i \in ReqIds : RefreshCommit(i)

SpecConc == InitConc /\ [][NextConc]_vars

\* The state InitConc starts from, as a state of Spec.
InitConcState ==
    /\ users = ConcLogin.db
    /\ now = 0
    /\ issued = {ConcMail} \cup ConcLogin.out
    /\ bt = <<>>
    /\ last = ConcLogin.resp
    /\ contacts = <<>>

-----------------------------------------------------------------------------
(* The contacts API: two users have signed up, confirmed and logged in at  *)
(* second 0; requests to /contacts carry any token a client can present.   *)

ApiA == "a@x.io"
ApiB == "b@x.io"
ApiMailA == create_email_token([sub |-> ApiA], 0, 0)
ApiMailB == create_email_token([sub |-> ApiB], 0, 0)
ApiSignedUp ==
    signup(ApiB, "alice", "pass-two", "salt1",
           signup(ApiA, "alice", "pass-one", "salt1", [e \in Emails |-> None]).db).db
ApiConfirmed ==
    confirmed_email(ApiMailB, confirmed_email(ApiMailA, ApiSignedUp, 0).db, 0).db
ApiLoginA == login(ApiA, "pass-one", ApiConfirmed, 0)
ApiLoginB == login(ApiB, "pass-two", ApiLoginA.db, 0)

InitApi ==
    /\ users = ApiLoginB.db
    /\ now = 0
    /\ issued = {ApiMailA, ApiMailB} \cup ApiLoginA.out \cup ApiLoginB.out
    /\ bt = <<>>
    /\ last = ApiLoginB.resp
    /\ reqs = [i \in ReqIds |-> Idle]
    /\ contacts = <<>>

\* An access token signed with a key that is not the service's.
ForgedAccessTokens ==
    {jwt_encode([sub |-> ApiA, iat |-> 0, exp |-> REFRESH_TOKEN_TTL,
                 scope |-> "access_token"], ForgerKey)}

\* What a client presents to /contacts: an access token, the refresh token or
\* the confirmation token of the first user, or the forgery.
PresentableApi ==
    {t \in issued : t.payload.scope = "access_token" \/ t.payload.sub = ApiA}
    \cup ForgedAccessTokens

\* The pickled row of a user as it was before the login.
Snapshot(e, db) == pickle_dumps([db[e] EXCEPT !.refresh_token = None])

\* The states of the redis server a request can meet: it does not answer; it
\* holds nothing; it holds a snapshot of the first user under that user's
\* email.
CacheStates(db) ==
    {[up |-> FALSE, data |-> [e \in Emails |-> None]],
     [up |-> TRUE, data |-> [e \in Emails |-> None]],
     [up |-> TRUE,
      data |-> [e \in Emails |-> IF e = ApiA THEN Snapshot(ApiA, db) ELSE None]]}

\* No more than MaxContacts rows are ever inserted.
MaxContacts == 2
ContactIds == 1..(MaxContacts + 1)

\* The query parameters of the list: limit, offset and the three filters.
Queries ==
    {[limit |-> 10, offset |-> 0, name |-> None, secondname |-> None, email |-> None],
     [limit |-> 10, offset |-> 1, name |-> Str(<<"a">>), secondname |-> None,
      email |-> None],
     [limit |-> 10, offset |-> 0, name |-> None, secondname |-> Str(<<"s">>),
      email |-> Str(<<"1">>)]}

\* The body of a create: phone and additional_data are not supplied.
CreateBodies ==
    {[name |-> Str(<<"A", "l">>), secondname |-> Str(<<"S">>),
      email |-> Str(<<"a", "1">>), born_day |-> Date(2025, 1, 2)]}

UpdateBodies ==
    {[name |-> Str(<<"Z">>), born_day |-> None]}

\* A request to /contacts handled from start to end.
HandleApi(r) ==
    /\ contacts' = r.contacts
    /\ last' = r.resp
    /\ UNCHANGED <<users, now, issued, bt, reqs>>

GetBirthday(token, cache) ==
    HandleApi(birthday(token, users, cache, contacts, now))

GetContacts(q, token, cache) ==
    HandleApi(get_contacts(q.limit, q.offset, q.name, q.secondname, q.email,
                           token, users, cache, contacts, now))

GetContactById(contact_id, token, cache) ==
    HandleApi(get_contact_by_id(contact_id, token, users, cache, contacts, now))

PostContact(limited, body, token, cache) ==
    /\ Len(contacts) < MaxContacts
    /\ HandleApi(create_contact(limited, body, token, users, cache, contacts, now))

PutContact(contact_id, body, token, cache) ==
    HandleApi(update_contact(contact_id, body, token, users, cache, contacts, now))

DeleteContact(contact_id, token, cache) ==
    HandleApi(delete_contact(contact_id, token, users, cache, contacts, now))

NextApi ==
    \/ \E d \in TickSteps : Tick(d)
    \/ \E t \in PresentableApi, c \in CacheStates(users) : GetBirthday(t, c)
    \/ \E q \in Queries, t \in PresentableApi, c \in CacheStates(users) :
          GetContacts(q, t, c)
    \/ \E id \in ContactIds, t \in PresentableApi, c \in CacheStates(users) :
          GetContactById(id, t, c)
    \/ \E lim \in BOOLEAN, b \in CreateBodies, t \in PresentableApi,
          c \in CacheStates(users) : PostContact(lim, b, t, c)
    \/ \E id \in ContactIds, b \in UpdateBodies, t \in PresentableApi,
          c \in CacheStates(users) : PutContact(id, b, t, c)
    \/ \E id \in ContactIds, t \in PresentableApi, c \in CacheStates(users) :
          DeleteContact(id, t, c)

SpecApi == InitApi /\ [][NextApi]_vars

\* The state InitApi starts from, as a state of Spec.
InitApiState ==
    /\ users = ApiLoginB.db
    /\ now = 0
    /\ issued = {ApiMailA, ApiMailB} \cup ApiLoginA.out \cup ApiLoginB.out
    /\ bt = <<>>
    /\ last = ApiLoginB.resp
    /\ contacts = <<>>

-----------------------------------------------------------------------------
(* The lifetime of tokens: one user signs up, confirms, logs in, refreshes *)
(* and asks for birthdays while the clock passes the expiry of the tokens. *)

\* The clock readings at which requests arrive: up to and just past the
\* lifetime of each kind of token handed out at second 0.
ClockPoints ==
    {ACCESS_TOKEN_TTL, ACCESS_TOKEN_TTL + 1, EMAIL_TOKEN_TTL, EMAIL_TOKEN_TTL + 1,
     REFRESH_TOKEN_TTL, REFRESH_TOKEN_TTL + 1}

\* The clock moves on to a later reading.
Advance(c) ==
    /\ c > now
    /\ now' = c
    /\ UNCHANGED <<users, issued, bt, last, reqs, contacts>>

\* The redis server answers and holds nothing.
EmptyCache == [up |-> TRUE, data |-> [e \in Emails |-> None]]

NextExpiry ==
    \/ \E c \in ClockPoints : Advance(c)
    \/ PostSignup(ConcUser, "alice", "pass-one", "salt1")
    \/ \E i \in 1..Len(bt), ok \in BOOLEAN : send_email(i, ok)
    \/ \E t \in issued : GetConfirmedEmail(t)
    \/ PostLogin(ConcUser, "pass-one")
    \/ \E t \in issued : GetRefreshToken(t)
    \/ \E t \in issued : GetBirthday(t, EmptyCache)

SpecExpiry == Init /\ [][NextExpiry]_vars

-----------------------------------------------------------------------------
(* The birthday query: the two users of the contacts API log in on the day *)
(* of the query, create contacts with various dates of birth and ask for   *)
(* the birthdays.                                                          *)

\* The days on which the query is made.
QueryDates == {Date(2024, 12, 28), Date(2025, 1, 1), Date(2025, 12, 1)}

\* The clock at the start of each of these days.
QueryClocks ==
    {(toordinal(d) - toordinal(EpochDate)) * SecondsPerDay : d \in QueryDates}

\* The dates of birth of the contacts created.
BirthDates ==
    {Date(1999, 12, 30), Date(2000, 1, 2), Date(2000, 7, 1), Date(2025, 1, 2),
     Date(2025, 1, 5)}

BirthdayBodies ==
    {[name |-> Str(<<"A", "l">>), secondname |-> Str(<<"S">>),
      email |-> Str(<<"a", "1">>), born_day |-> d] : d \in BirthDates}

\* Both users log in at clock second t.
BirthdayLoginA(t) == login(ApiA, "pass-one", ApiConfirmed, t)
BirthdayLoginB(t) == login(ApiB, "pass-two", BirthdayLoginA(t).db, t)

InitBirthday ==
    \E t \in QueryClocks :
       /\ users = BirthdayLoginB(t).db
       /\ now = t
       /\ issued = BirthdayLoginA(t).out \cup BirthdayLoginB(t).out
       /\ bt = <<>>
       /\ last = BirthdayLoginB(t).resp
       /\ reqs = [i \in ReqIds |-> Idle]
       /\ contacts = <<>>

\* The access tokens handed out.
AccessTokens == {t \in issued : t.payload.scope = "access_token"}

NextBirthday ==
    \/ \E b \in BirthdayBodies, t \in AccessTokens, c \in CacheStates(users) :
          PostContact(FALSE, b, t, c)
    \/ \E t \in AccessTokens, c \in CacheStates(users) : GetBirthday(t, c)

SpecBirthday == InitBirthday /\ [][NextBirthday]_vars

-----------------------------------------------------------------------------
(* The whole service: the routes of /auth and of /contacts together, from  *)
(* the empty database, for one user.                                       *)

NextLife ==
    \/ Advance(LongStep)
    \/ PostSignup(ConcUser, "alice", "pass-one", "salt1")
    \/ \E i \in 1..Len(bt), ok \in BOOLEAN : send_email(i, ok)
    \/ \E t \in issued : GetConfirmedEmail(t)
    \/ PostLogin(ConcUser, "pass-one")
    \/ \E t \in issued : GetRefreshToken(t)
    \/ PostRequestEmail(ConcUser)
    \/ \E id \in ContactIds, t \in AccessTokens : GetContactById(id, t, EmptyCache)
    \/ \E b \in CreateBodies, t \in AccessTokens : PostContact(FALSE, b, t, EmptyCache)
    \/ \E id \in ContactIds, b \in UpdateBodies, t \in AccessTokens :
          PutContact(id, b, t, EmptyCache)
    \/ \E id \in ContactIds, t \in AccessTokens : DeleteContact(id, t, EmptyCache)

SpecLife == Init /\ [][NextLife]_vars

-----------------------------------------------------------------------------
(* The token makers called with an expires_delta: a caller of the Auth     *)
(* service asks for access and refresh tokens of a given lifetime.         *)

\* The values of expires_delta: not given, and a number of seconds.
Deltas == {NoDelta, 0, 1, 60}

\* The outcome of a call of a token maker.
Made(op, expires_delta, token) ==
    [op |-> op, expires_delta |-> expires_delta, token |-> token]

InitDelta ==
    /\ users = [e \in Emails |-> None]
    /\ now \in {0} \cup ClockPoints
    /\ issued = {}
    /\ bt = <<>>
    /\ last = Made("start", NoDelta, None)
    /\ reqs = [i \in ReqIds |-> Idle]
    /\ contacts = <<>>

CallCreateAccessToken(e, expires_delta) ==
    LET token == create_access_token([sub |-> e], expires_delta, now, now) IN
    /\ issued' = issued \cup {token}
    /\ last' = Made("create_access_token", expires_delta, token)
    /\ UNCHANGED <<users, now, bt, reqs, contacts>>

CallCreateRefreshToken(e, expires_delta) ==
    LET token == create_refresh_token([sub |-> e], expires_delta, now, now) IN
    /\ issued' = issued \cup {token}
    /\ last' = Made("create_refresh_token", expires_delta, token)
    /\ UNCHANGED <<users, now, bt, reqs, contacts>>

NextDelta ==
    \/ \E d \in Deltas : CallCreateAccessToken(ConcUser, d)
    \/ \E d \in Deltas : CallCreateRefreshToken(ConcUser, d)

SpecDelta == InitDelta /\ [][NextDelta]_vars

-----------------------------------------------------------------------------
(* A login while refresh requests are in flight: the requests of the       *)
(* concurrent model, with the clock moving on by seconds and logins of the *)
(* same user handled between their steps.                                  *)

\* The clock readings after the first login.
RaceClocks == {1, 2}

NextRace ==
    \/ \E c \in RaceClocks : Advance(c)
    \/ PostLogin(ConcUser, "pass-one")
    \/ \E i \in ReqIds, t \in Presentable : RefreshRead(i, t)
    \/ \E i \in ReqIds : RefreshCompare(i)
    \/ \E i \in ReqIds : RefreshCommit(i)

SpecRace == InitConc /\ [][NextRace]_vars

-----------------------------------------------------------------------------
(* Concurrent signups. The existence check (get_user_by_email) and the     *)
(* insert (create_user) are separate awaits, each request on its own       *)
(* session; the email column is unique, so the commit of a second row with *)
(* the same address raises IntegrityError, which signup does not catch.    *)

IdleSignup == [pc |-> "idle", body |-> None, status |-> 0, detail |-> "",
               user |-> None]

InitSignupRace ==
    /\ users = [e \in Emails |-> None]
    /\ now = 0
    /\ issued = {}
    /\ bt = <<>>
    /\ last = Response("start", 0, "", None, None, None)
    /\ reqs = [i \in ReqIds |-> IdleSignup]
    /\ contacts = <<>>

\* signup, lines 32-35: the existence check and the hash of the password.
SignupCheck(i, email, username, password, salt) ==
    LET exist_user == get_user_by_email(email, users)
        body == [username |-> username, email |-> email,
                 password |-> get_password_hash(password, salt)]
    IN
    /\ reqs[i].pc = "idle"
    /\ IF exist_user # None
       THEN /\ reqs' = [reqs EXCEPT ![i].pc = "done", ![i].body = body,
                                    ![i].status = 409,
                                    ![i].detail = ACCOUNT_EXIST]
            /\ last' = Response("signup", 409, ACCOUNT_EXIST, None, None, None)
       ELSE /\ reqs' = [reqs EXCEPT ![i].pc = "insert", ![i].body = body]
            /\ UNCHANGED last
    /\ UNCHANGED <<users, now, issued, bt, contacts>>

\* signup, lines 36-38: create_user commits the new row, then the mail task
\* is added and the user returned; a commit that meets a row with the same
\* address raises and the request ends in 500.
SignupInsert(i) ==
    LET body == reqs[i].body IN
    /\ reqs[i].pc = "insert"
    /\ IF users[body.email] # None
       THEN /\ reqs' = [reqs EXCEPT ![i].pc = "done", ![i].status = 500,
                                    ![i].detail = "Internal Server Error"]
            /\ last' = Response("signup", 500, "Internal Server Error",
                                None, None, None)
            /\ UNCHANGED <<users, bt>>
       ELSE LET db2 == create_user(body, users)
                new_user == db2[body.email]
            IN /\ users' = db2
               /\ bt' = Append(bt, [email |-> new_user.email,
                                    username |-> new_user.username])
               /\ reqs' = [reqs EXCEPT ![i].pc = "done", ![i].status = 201,
                                       ![i].user = UserResponse(new_user)]
               /\ last' = Response("signup", 201, "", None, None,
                                   UserResponse(new_user))
    /\ UNCHANGED <<now, issued, contacts>>

NextSignupRace ==
    \/ \E i \in ReqIds, e \in Emails, u \in Usernames, p \in Passwords, s \in Salts :
          SignupCheck(i, e, u, p, s)
    \/ \E i \in ReqIds : SignupInsert(i)

SpecSignupRace == InitSignupRace /\ [][NextSignupRace]_vars

-----------------------------------------------------------------------------
(* Properties *)

Registered(e) == users[e] # None
Confirmed(e) == Registered(e) /\ users[e].confirmed

IsRefreshToken(t) == t.key = SECRET_KEY /\ t.payload.scope = "refresh_token"

\* The refresh tokens handed out so far with subject e.
RefreshTokensOf(e, tokens) ==
    {t \in tokens : IsRefreshToken(t) /\ t.payload.sub = e}

\* refresh would answer the token t with a new pair.
Accepted(t, db, clock) == refresh_token(t, db, clock).resp.status = 200

\* This step is a login or a refresh of e that answered with a token pair.
Rotation(e) ==
    /\ \/ \E p \in Passwords : PostLogin(e, p)
       \/ \E t \in Presentable : t.payload.sub = e /\ GetRefreshToken(t)
    /\ last'.status = 200

\* C1: in every reachable state refresh answers a token with a new pair only
\* if that token is the value stored on its subject's row; so at most one
\* refresh token per user is accepted, and none while the stored value is null.
C1_RefreshOnlyStoredToken ==
    /\ \A t \in Presentable :
         Accepted(t, users, now) =>
            /\ Registered(t.payload.sub)
            /\ users[t.payload.sub].refresh_token = t
    /\ \A e \in Emails :
         /\ Cardinality({t \in Presentable :
                           t.payload.sub = e /\ Accepted(t, users, now)}) <= 1
         /\ (Registered(e) /\ users[e].refresh_token = None)
               => \A t \in Presentable : t.payload.sub = e => ~Accepted(t, users, now)

\* A refresh has just answered with a new pair.
C1_Witness == last.op = "refresh_token" /\ last.status = 200

\* C2: after a successful login or refresh of a user, every refresh token
\* handed out for that user before it is answered 401 by refresh, also when
\* the two tokens are made in the same clock second.
C2_RotationRejectsEarlierTokens ==
    [][\A e \in Emails :
         Rotation(e) =>
            \A t \in RefreshTokensOf(e, issued) :
               refresh_token(t, users', now').resp.status = 401]_vars

\* C3: a validly signed, unexpired refresh-scope token that is not the stored
\* one is answered 401 and the stored token becomes null; while it is null
\* every refresh of that user fails, and only a successful login ends that.
C3_MismatchClearsStoredToken ==
    [][\A e \in Emails :
         /\ \A t \in RefreshTokensOf(e, issued) :
              ( /\ last'.op = "refresh_token"
                /\ Registered(e)
                /\ users[e].refresh_token # t
                /\ decode_refresh_token(t, now).status = 200
                /\ GetRefreshToken(t) )
              => /\ last'.status = 401
                 /\ last'.detail = "Invalid refresh token"
                 /\ users'[e].refresh_token = None
                 /\ \A u \in RefreshTokensOf(e, issued') : ~Accepted(u, users', now')
         /\ ( /\ Registered(e)
              /\ users[e].refresh_token = None
              /\ users'[e].refresh_token # None )
            => /\ last'.op = "login"
               /\ last'.status = 200
               /\ \E p \in Passwords : PostLogin(e, p)]_vars

\* A mismatching refresh was answered 401 while a token had been stored, and
\* the stored token is now null.
C3_Witness ==
    /\ last.op = "refresh_token"
    /\ last.detail = "Invalid refresh token"
    /\ \E e \in Emails :
         /\ Registered(e)
         /\ users[e].refresh_token = None
         /\ RefreshTokensOf(e, issued) # {}

\* C4: of two refresh requests that carry the same stored refresh token and
\* overlap, at most one is answered with a new pair.
C4_OneConcurrentRefreshSucceeds ==
    \A i, j \in ReqIds :
       ( /\ i # j
         /\ reqs[i].pc = "done" /\ reqs[j].pc = "done"
         /\ reqs[i].token = reqs[j].token
         /\ reqs[i].user # None /\ reqs[j].user # None
         /\ reqs[i].user.refresh_token = reqs[i].token
         /\ reqs[j].user.refresh_token = reqs[j].token
         /\ reqs[i].status = 200 )
       => \/ reqs[j].status # 200
          \/ reqs[j].new_token = reqs[j].token
          \/ reqs[i].new_token = reqs[i].token

\* C5: for a registered user whose confirmed flag is false, login answers
\* 401 'Email not confirmed' for every password; no token is issued and the
\* users table is left as it was.
C5_UnconfirmedLoginRejected ==
    [][\A e \in Emails, p \in Passwords :
         ( /\ last'.op = "login"
           /\ Registered(e)
           /\ ~users[e].confirmed
           /\ PostLogin(e, p) )
         => /\ last'.status = 401
            /\ last'.detail = "Email not confirmed"
            /\ last'.access_token = None
            /\ last'.refresh_token = None
            /\ issued' = issued
            /\ users' = users]_vars

\* A login of a registered, unconfirmed user was answered 'Email not confirmed'.
C5_Witness ==
    /\ last.op = "login"
    /\ last.detail = "Email not confirmed"
    /\ \E e \in Emails : Registered(e) /\ ~users[e].confirmed

\* C6: for a confirmed user, login with a wrong password answers 401
\* 'Invalid password', whatever came before, changes nothing stored, and a
\* login with the right password afterwards still succeeds.
C6_WrongPasswordChangesNothing ==
    [][\A e \in Emails, p \in Passwords :
         ( /\ last'.op = "login"
           /\ Confirmed(e)
           /\ ~verify_password(p, users[e].password)
           /\ PostLogin(e, p) )
         => /\ last'.status = 401
            /\ last'.detail = "Invalid password"
            /\ users' = users
            /\ issued' = issued
            /\ \A q \in Passwords :
                  verify_password(q, users'[e].password)
                     => login(e, q, users', now').resp.status = 200]_vars

\* A wrong password was answered 'Invalid password' for a user that holds a
\* stored refresh token.
C6_Witness ==
    /\ last.op = "login"
    /\ last.detail = "Invalid password"
    /\ \E e \in Emails : Confirmed(e) /\ users[e].refresh_token # None

\* C7: after a successful login or refresh the stored refresh token is the
\* one returned, the returned tokens have the scopes access_token and
\* refresh_token, and both have the user's email as subject.
PairFor(e) ==
    /\ last'.status = 200
    /\ Registered(e)'
    /\ users'[e].refresh_token = last'.refresh_token
    /\ last'.access_token.payload.scope = "access_token"
    /\ last'.refresh_token.payload.scope = "refresh_token"
    /\ last'.access_token.payload.sub = e
    /\ last'.refresh_token.payload.sub = e

C7_StoredTokenIsReturnedToken ==
    [][/\ \A e \in Emails, p \in Passwords :
            ( /\ last'.op = "login"
              /\ login(e, p, users, now).resp.status = 200
              /\ PostLogin(e, p) )
            => PairFor(e)
       /\ \A t \in Presentable :
            ( /\ last'.op = "refresh_token"
              /\ Accepted(t, users, now)
              /\ GetRefreshToken(t) )
            => PairFor(t.payload.sub)]_vars

\* A login has just answered with a pair.
C7_Witness == last.op = "login" /\ last.status = 200

\* C8: login with an email that no user has answers 401 'Invalid email',
\* whatever the password, and writes nothing.
C8_UnknownEmailRejected ==
    [][\A e \in Emails, p \in Passwords :
         ( /\ last'.op = "login"
           /\ ~Registered(e)
           /\ PostLogin(e, p) )
         => /\ last'.status = 401
            /\ last'.detail = "Invalid email"
            /\ users' = users
            /\ issued' = issued
            /\ bt' = bt]_vars

\* A login was answered 'Invalid email' while some address has no user.
C8_Witness ==
    /\ last.op = "login"
    /\ last.detail = "Invalid email"
    /\ \E e \in Emails : ~Registered(e)

\* C9: signup with a registered email answers 409 and leaves the users table
\* and the background tasks as they were.
C9_RepeatedSignupRejected ==
    [][\A e \in Emails, u \in Usernames, p \in Passwords, sl \in Salts :
         ( /\ last'.op = "signup"
           /\ Registered(e)
           /\ PostSignup(e, u, p, sl) )
         => /\ last'.status = 409
            /\ last'.detail = ACCOUNT_EXIST
            /\ users' = users
            /\ bt' = bt
            /\ issued' = issued]_vars

\* A signup was answered 409 for a user that has confirmed and logged in.
C9_Witness ==
    /\ last.op = "signup"
    /\ last.status = 409
    /\ \E e \in Emails : Confirmed(e) /\ users[e].refresh_token # None

\* C10: a signup with an unregistered email answers 201 and adds exactly one
\* user, unconfirmed and with a null refresh token; while that user is
\* unconfirmed a login with the right password answers 'Email not confirmed'.
C10_SignupAddsUnconfirmedUser ==
    [][\A e \in Emails :
         /\ \A u \in Usernames, p \in Passwords, sl \in Salts :
              ( /\ last'.op = "signup"
                /\ ~Registered(e)
                /\ PostSignup(e, u, p, sl) )
              => /\ last'.status = 201
                 /\ Registered(e)'
                 /\ users'[e].email = e
                 /\ users'[e].confirmed = FALSE
                 /\ users'[e].refresh_token = None
                 /\ \A o \in Emails \ {e} : users'[o] = users[o]
                 /\ verify_password(p, users'[e].password)
                 /\ login(e, p, users', now').resp.detail = "Email not confirmed"
         /\ (Registered(e) /\ ~users[e].confirmed)
               => \A q \in Passwords :
                     verify_password(q, users[e].password)
                        => login(e, q, users, now).resp.detail = "Email not confirmed"]_vars

\* A signup was just answered 201 for a second user.
C10_Witness ==
    /\ last.op = "signup"
    /\ last.status = 201
    /\ \A e \in Emails : Registered(e)
    /\ \E e \in Emails : ~users[e].confirmed /\ users[e].refresh_token = None

\* C11: signup stores a digest of the submitted password, made by
\* get_password_hash, and no step changes it afterwards; for a confirmed user
\* whose digest was made from p, login with p' answers with a token pair
\* exactly when p' = p.
C11_PasswordRoundTrip ==
    [][\A e \in Emails :
         /\ \A u \in Usernames, p \in Passwords, sl \in Salts :
              ( /\ last'.op = "signup"
                /\ ~Registered(e)
                /\ PostSignup(e, u, p, sl) )
              => /\ users'[e].password = get_password_hash(p, sl)
                 /\ \A q \in Passwords :
                      (login(e, q, repo_confirmed_email(e, users'), now').resp.status = 200)
                         <=> (q = p)
         /\ Registered(e) => users'[e].password = users[e].password
         /\ \A q \in Passwords :
              ( /\ last'.op = "login"
                /\ Confirmed(e)
                /\ PostLogin(e, q) )
              => \E p \in Passwords, sl \in Salts :
                    /\ users[e].password = get_password_hash(p, sl)
                    /\ (last'.status = 200) <=> (q = p)]_vars

\* A confirmed user who signed up with the second password has logged in.
C11_Witness ==
    /\ last.op = "login"
    /\ last.status = 200
    /\ \E e \in Emails, sl \in Salts :
         /\ Confirmed(e)
         /\ users[e].password = get_password_hash("pass-two", sl)
         /\ users[e].refresh_token = last.refresh_token

\* The tokens handed out so far that create_email_token made for e.
EmailTokensOf(e, tokens) ==
    {t \in tokens : t.key = SECRET_KEY /\ t.payload.scope = Absent /\ t.payload.sub = e}

\* C12: confirmed_email with a valid confirmation token of an unconfirmed user
\* sets confirmed and answers 'Email confirmed'; with a valid token of a
\* confirmed user it answers 200 'Your email is already confirmed' and leaves
\* the users table, the tokens and the tasks as they were.
C12_ConfirmEmailIdempotent ==
    [][\A e \in Emails :
         \A t \in EmailTokensOf(e, issued) :
            ( /\ last'.op = "confirmed_email"
              /\ Registered(e)
              /\ get_email_from_token(t, now).status = 200
              /\ GetConfirmedEmail(t) )
            => IF ~users[e].confirmed
               THEN /\ last'.status = 200
                    /\ last'.detail = "Email confirmed"
                    /\ users' = [users EXCEPT ![e].confirmed = TRUE]
                    /\ \A t2 \in EmailTokensOf(e, issued') :
                         get_email_from_token(t2, now').status = 200
                            => LET r == confirmed_email(t2, users', now') IN
                               /\ r.resp.status = 200
                               /\ r.resp.detail = "Your email is already confirmed"
                               /\ r.db = users'
               ELSE /\ last'.status = 200
                    /\ last'.detail = "Your email is already confirmed"
                    /\ users' = users
                    /\ issued' = issued
                    /\ bt' = bt]_vars

\* A confirmation was answered 'Your email is already confirmed'.
C12_Witness ==
    /\ last.op = "confirmed_email"
    /\ last.status = 200
    /\ last.detail = "Your email is already confirmed"
    /\ \E e \in Emails : Confirmed(e) /\ EmailTokensOf(e, issued) # {}

\* C13: confirmed_email rejects every validly signed, unexpired token whose
\* scope is access_token or refresh_token: the answer is an error and the
\* users table is left as it was.
C13_ConfirmEmailRejectsOtherScopes ==
    [][\A t \in issued :
         ( /\ last'.op = "confirmed_email"
           /\ t.payload.scope \in {"access_token", "refresh_token"}
           /\ jwt_decode(t, SECRET_KEY, now).ok
           /\ GetConfirmedEmail(t) )
         => /\ last'.status # 200
            /\ users' = users]_vars

\* C15: refresh with a validly signed, unexpired token whose scope is not
\* refresh_token (an access token, or a token without a scope claim) answers
\* 401 'Invalid scope for token'; with a token of another signature or past
\* its expiry it answers 401 'Could not validate credentials'; in both cases
\* the users table is left as it was.
C15_RefreshRejectsOtherTokens ==
    [][\A t \in Presentable :
         ( /\ last'.op = "refresh_token"
           /\ GetRefreshToken(t) )
         => /\ ( jwt_decode(t, SECRET_KEY, now).ok /\ t.payload.scope # "refresh_token" )
                 => /\ last'.status = 401
                    /\ last'.detail = "Invalid scope for token"
                    /\ users' = users
            /\ ~jwt_decode(t, SECRET_KEY, now).ok
                 => /\ last'.status = 401
                    /\ last'.detail = "Could not validate credentials"
                    /\ users' = users]_vars

\* C18: request_email answers 200 for every address, whether or not a user
\* has it; it adds a confirmation-mail task exactly when the user exists and
\* is unconfirmed, and it leaves the users table as it was.
C18_RequestEmailAlways200 ==
    [][\A e \in Emails :
         ( /\ last'.op = "request_email"
           /\ PostRequestEmail(e) )
         => /\ last'.status = 200
            /\ users' = users
            /\ issued' = issued
            /\ IF Registered(e) /\ ~users[e].confirmed
               THEN bt' = Append(bt, [email |-> e, username |-> users[e].username])
               ELSE bt' = bt]_vars

-----------------------------------------------------------------------------
(* Properties of the contacts API *)

\* get_current_user accepts the token at this clock reading: the signature
\* is the service's, exp has not passed, the scope is access_token.
ValidAccess(t, clock) ==
    /\ jwt_decode(t, SECRET_KEY, clock).ok
    /\ t.payload.scope = "access_token"
    /\ t.payload.sub # Absent

\* This step is a request to /contacts with bearer t that met the cache in
\* state c and reached get_current_user.
ContactStep(t, c) ==
    \/ last'.op = "birthday" /\ GetBirthday(t, c)
    \/ last'.op = "get_contacts" /\ \E q \in Queries : GetContacts(q, t, c)
    \/ last'.op = "get_contact_by_id"
         /\ \E id \in ContactIds : GetContactById(id, t, c)
    \/ last'.op = "create_contact" /\ c.up
         /\ \E b \in CreateBodies : PostContact(FALSE, b, t, c)
    \/ last'.op = "update_contact"
         /\ \E id \in ContactIds, b \in UpdateBodies : PutContact(id, b, t, c)
    \/ last'.op = "delete_contact"
         /\ \E id \in ContactIds : DeleteContact(id, t, c)

\* C14: a request whose bearer is not a valid access token (another
\* signature, expired, a scope other than access_token, no scope claim) is
\* answered 401 'Could not validate credentials' and nothing else.
C14_InvalidTokenUnauthorized ==
    [][\A t \in PresentableApi, c \in CacheStates(users) :
         ( ~ValidAccess(t, now) /\ ContactStep(t, c) )
         => /\ last'.status = 401
            /\ last'.detail = CREDENTIALS
            /\ contacts' = contacts]_vars

\* C16: with a valid access token, when the cache holds nothing under the
\* subject or does not answer, the user is read from the users table and the
\* failure of the cache does not reach the caller.
C16_CacheBestEffort ==
    [][\A t \in PresentableApi, c \in CacheStates(users) :
         ( /\ ValidAccess(t, now)
           /\ ~c.up \/ c.data[t.payload.sub] = None
           /\ ContactStep(t, c) )
         => last'.current_user = users[t.payload.sub]]_vars

\* What the routes of /contacts answer in this state to bearer t when the
\* cache is in state c and the rate limit is not reached.
ContactResults(t, c) ==
    {birthday(t, users, c, contacts, now)}
    \cup {get_contacts(q.limit, q.offset, q.name, q.secondname, q.email, t,
                       users, c, contacts, now) : q \in Queries}
    \cup {get_contact_by_id(id, t, users, c, contacts, now) : id \in ContactIds}
    \cup {create_contact(FALSE, b, t, users, c, contacts, now) : b \in CreateBodies}
    \cup {update_contact(id, b, t, users, c, contacts, now) :
            id \in ContactIds, b \in UpdateBodies}
    \cup {delete_contact(id, t, users, c, contacts, now) : id \in ContactIds}

\* C17: with a valid access token of subject e and a cache that answers, the
\* resolved user is the unpickled snapshot under e when there is one, whatever
\* the users table holds, and the row of e otherwise; the answer is 401
\* exactly when neither has the user.
C17_CacheFirstThenDatastore ==
    \A t \in PresentableApi, c \in CacheStates(users) :
       ( ValidAccess(t, now) /\ c.up )
       => LET e == t.payload.sub IN
          \A r \in ContactResults(t, c) :
             /\ c.data[e] # None => r.resp.current_user = pickle_loads(c.data[e])
             /\ (c.data[e] = None /\ users[e] # None)
                   => r.resp.current_user = users[e]
             /\ (r.resp.status = 401) <=> (c.data[e] = None /\ users[e] = None)

\* A request was resolved to a cached snapshot that differs from the row.
C17_Witness ==
    /\ last.op \in {"birthday", "get_contact_by_id", "update_contact"}
    /\ last.current_user # None
    /\ last.current_user # users[last.current_user.email]
    /\ last.current_user.id = users[last.current_user.email].id

\* C19: a request with a valid access token of a user neither returns nor
\* changes nor removes a row of another owner: every such row is the same
\* after the request, every row in a response is the caller's, and
\* get-by-id and update on the id of such a row answer 404.
C19_ContactIsolation ==
    \A t \in PresentableApi, c \in CacheStates(users) :
       ValidAccess(t, now)
       => LET uid == users[t.payload.sub].id
              Foreign(i) == contacts[i] # None /\ contacts[i].user_id # uid
          IN
          /\ \A r \in ContactResults(t, c) :
               /\ \A i \in 1..Len(contacts) :
                    Foreign(i) => r.contacts[i] = contacts[i]
               /\ (r.resp.op \in {"birthday", "get_contacts"} /\ r.resp.status = 200)
                     => \A k \in 1..Len(r.resp.body) : r.resp.body[k].user_id = uid
               /\ ( /\ r.resp.op \in {"get_contact_by_id", "update_contact",
                                      "create_contact"}
                    /\ r.resp.body # None )
                     => r.resp.body.user_id = uid
          /\ \A id \in 1..Len(contacts) :
               (Foreign(id) /\ c.up)
                  => /\ get_contact_by_id(id, t, users, c, contacts, now).resp.status = 404
                     /\ \A b \in UpdateBodies :
                          LET r == update_contact(id, b, t, users, c, contacts, now) IN
                          r.resp.status = 404 /\ r.contacts = contacts
                     /\ delete_contact(id, t, users, c, contacts, now).contacts = contacts

\* The birthday list of a user holds that user's row and not the row of the
\* other user with the same birthday.
C19_Witness ==
    /\ last.op = "birthday"
    /\ last.status = 200
    /\ last.current_user # None
    /\ Len(last.body) = 1
    /\ \E i \in 1..Len(contacts) :
         /\ contacts[i] # None
         /\ contacts[i].user_id # last.current_user.id
         /\ contacts[i].born_day = last.body[1].born_day

\* C20: the list, called with a valid access token and any combination of
\* the filters, answers 200 with exactly the rows of the current user that
\* match the filters, within offset and limit; with no rows, the empty list.
C20_ListReturnsOwnedMatches ==
    [][\A t \in PresentableApi, c \in CacheStates(users), q \in Queries :
         ( /\ last'.op = "get_contacts"
           /\ ValidAccess(t, now)
           /\ c.up
           /\ GetContacts(q, t, c) )
         => /\ last'.status = 200
            /\ last'.body = repo_get_contacts(q.limit, q.offset, contacts,
                                              last'.current_user, q.name,
                                              q.secondname, q.email, None).rows
            /\ (\A i \in 1..Len(contacts) :
                   contacts[i] = None \/ contacts[i].user_id # last'.current_user.id)
                  => last'.body = <<>>]_vars

-----------------------------------------------------------------------------
(* Properties of the life of a contact *)

\* The valid access tokens a client holds in this state.
ValidTokens == {t \in PresentableApi : ValidAccess(t, now)}

\* The states of the cache in which the redis server answers.
UpCaches == {c \in CacheStates(users) : c.up}

\* The id of the user a valid access token resolves to.
UidOf(t) == users[t.payload.sub].id

\* The row with primary key id is in the table and belongs to uid.
Owned(id, uid) ==
    /\ id \in 1..Len(contacts)
    /\ contacts[id] # None
    /\ contacts[id].user_id = uid

\* C21: for a confirmed, logged-in user, create answers 201 with a contact c
\* that get-by-id then returns; get-by-id of an owned contact returns it,
\* update returns the updated contact and stores it, delete succeeds and
\* get-by-id after it answers 404; a deleted id stays deleted, so every
\* later get-by-id of it answers 404 too.
C21_ContactLifeCycle ==
    /\ [](\A t \in ValidTokens, c \in UpCaches :
            /\ \A b \in CreateBodies :
                 LET r == create_contact(FALSE, b, t, users, c, contacts, now) IN
                 /\ r.resp.status = 201
                 /\ r.resp.body.user_id = UidOf(t)
                 /\ \A f \in DOMAIN b : r.resp.body[f] = b[f]
                 /\ LET g == get_contact_by_id(r.resp.body.id, t, users, c,
                                               r.contacts, now) IN
                    g.resp.status = 200 /\ g.resp.body = r.resp.body
            /\ \A id \in ContactIds :
                 Owned(id, UidOf(t)) =>
                    /\ LET g == get_contact_by_id(id, t, users, c, contacts, now) IN
                       g.resp.status = 200 /\ g.resp.body = contacts[id]
                    /\ \A b \in UpdateBodies :
                         LET r == update_contact(id, b, t, users, c, contacts, now)
                             g == get_contact_by_id(id, t, users, c, r.contacts, now)
                         IN /\ r.resp.status = 200
                            /\ \A f \in DOMAIN b : r.resp.body[f] = b[f]
                            /\ r.resp.body.id = id
                            /\ g.resp.status = 200 /\ g.resp.body = r.resp.body
                    /\ LET r == delete_contact(id, t, users, c, contacts, now) IN
                       /\ r.resp.status = 204
                       /\ \A u \in ValidTokens, k \in UpCaches :
                            get_contact_by_id(id, u, users, k, r.contacts, now)
                               .resp.status = 404
            /\ \A id \in 1..Len(contacts) :
                 contacts[id] = None =>
                    get_contact_by_id(id, t, users, c, contacts, now).resp.status = 404)
    /\ [][\A id \in 1..Len(contacts) :
            contacts[id] = None => (Len(contacts') >= id /\ contacts'[id] = None)]_vars

\* The owner has just deleted a contact, and get-by-id of it answers 404.
C21_Witness ==
    /\ last.op = "delete_contact"
    /\ last.status = 204
    /\ \E id \in 1..Len(contacts), t \in ValidTokens, c \in UpCaches :
         /\ contacts[id] = None
         /\ UidOf(t) = last.current_user.id
         /\ get_contact_by_id(id, t, users, c, contacts, now).resp.status = 404

-----------------------------------------------------------------------------
(* Properties of the birthday query *)

\* The month and day of born are the month and day of today or of one of the
\* seven days after it.
InWindow(born, today) ==
    \E k \in 0..7 :
       LET d == AddDays(today, k) IN d.month = born.month /\ d.day = born.day

\* C22: the birthday query returns every contact of the user whose birth
\* month and day fall within the next 7 days of the query date, whatever the
\* year of birth, also across the end of the year.
C22_BirthdayComplete ==
    \A t \in ValidTokens, c \in UpCaches :
       LET r == birthday(t, users, c, contacts, now) IN
       \A i \in 1..Len(contacts) :
          ( /\ Owned(i, UidOf(t))
            /\ contacts[i].born_day # None
            /\ InWindow(contacts[i].born_day, today_date(now)) )
          => \E k \in 1..Len(r.resp.body) : r.resp.body[k] = contacts[i]

\* C23: every contact the birthday query returns is owned by the user and
\* has its birth month and day within the next 7 days of the query date.
C23_BirthdaySound ==
    \A t \in ValidTokens, c \in UpCaches :
       LET r == birthday(t, users, c, contacts, now) IN
       \A k \in 1..Len(r.resp.body) :
          /\ r.resp.body[k].user_id = UidOf(t)
          /\ InWindow(r.resp.body[k].born_day, today_date(now))

\* C24: update of an owned contact gives exactly the supplied fields their
\* supplied values, keeps every other field and every other row; update of
\* an id the caller does not own changes nothing and answers 404.
C24_UpdateIsPartial ==
    \A t \in ValidTokens, c \in UpCaches, id \in ContactIds, b \in UpdateBodies :
       LET r == update_contact(id, b, t, users, c, contacts, now) IN
       IF Owned(id, UidOf(t))
       THEN /\ r.resp.status = 200
            /\ Len(r.contacts) = Len(contacts)
            /\ DOMAIN r.contacts[id] = DOMAIN contacts[id]
            /\ \A f \in DOMAIN contacts[id] :
                 r.contacts[id][f] = IF f \in DOMAIN b THEN b[f] ELSE contacts[id][f]
            /\ \A j \in 1..Len(contacts) : j # id => r.contacts[j] = contacts[j]
       ELSE /\ r.resp.status = 404
            /\ r.resp.detail = CONTACT_NOT_FOUND
            /\ r.contacts = contacts

\* An update has changed the name of a contact and kept its other fields,
\* next to another row.
C24_Witness ==
    /\ last.op = "update_contact"
    /\ last.status = 200
    /\ Len(contacts) > 1
    /\ \E id \in 1..Len(contacts), b \in UpdateBodies, cb \in CreateBodies :
         /\ contacts[id] = last.body
         /\ \A f \in DOMAIN b : contacts[id][f] = b[f]
         /\ \E f \in DOMAIN cb : f \notin DOMAIN b /\ contacts[id][f] = cb[f]
         /\ \E g \in DOMAIN b : b[g] # cb[g]

-----------------------------------------------------------------------------
(* Properties of the lifetime of tokens *)

\* The default lifetime of a token of this scope; the confirmation token
\* carries no scope claim.
Lifetime(scope) ==
    IF scope = "access_token" THEN ACCESS_TOKEN_TTL
    ELSE IF scope = "refresh_token" THEN REFRESH_TOKEN_TTL
    ELSE EMAIL_TOKEN_TTL

\* The handler that takes tokens of this kind answers tok with success at
\* clock reading clock.
AcceptedAt(tok, clock) ==
    IF tok.payload.scope = "access_token"
    THEN get_current_user(tok, users, EmptyCache, clock).status = 200
    ELSE IF tok.payload.scope = "refresh_token"
    THEN refresh_token(tok, users, clock).resp.status = 200
    ELSE confirmed_email(tok, users, clock).resp.status = 200

\* C25: a token handed out expires 15 minutes (access), 7 days (refresh) or
\* 1 day (confirmation) after it was issued; its handler accepts it only
\* while the clock is within that time, and as the clock never goes back, a
\* token whose exp has passed is rejected from then on.
C25_TokensExpire ==
    /\ [](\A tok \in issued :
            /\ tok.payload.exp = tok.payload.iat + Lifetime(tok.payload.scope)
            /\ AcceptedAt(tok, now)
                  => now <= tok.payload.iat + Lifetime(tok.payload.scope)
            /\ now > tok.payload.exp => ~AcceptedAt(tok, now))
    /\ [][now' >= now]_vars

\* The clock is one second past the exp of a confirmation token, an access
\* token is past its exp too, and a request for the birthdays was answered 401.
C25_Witness ==
    /\ last.op = "birthday"
    /\ last.status = 401
    /\ \E tok \in issued :
         tok.payload.scope = Absent /\ now = tok.payload.exp + 1
    /\ \E tok \in issued :
         tok.payload.scope = "access_token" /\ now > tok.payload.exp

-----------------------------------------------------------------------------
(* Properties of signup and of the confirmation mail *)

\* C26: a signup answered 201 adds exactly one mail task, for the address of
\* the user it has just created, and a signup answered otherwise adds none;
\* a mail task that runs, delivered or not, changes neither the last
\* response nor the users table, and a task that never runs changes nothing.
C26_SignupAddsOneMailTask ==
    [][/\ \A e \in Emails :
            ( /\ last'.op = "signup"
              /\ \E u \in Usernames, p \in Passwords, s \in Salts :
                    PostSignup(e, u, p, s) )
            => IF last'.status = 201
               THEN /\ users[e] = None
                    /\ users'[e] # None
                    /\ Len(bt') = Len(bt) + 1
                    /\ SubSeq(bt', 1, Len(bt)) = bt
                    /\ bt'[Len(bt')].email = e
                    /\ bt'[Len(bt')].email = users'[e].email
               ELSE bt' = bt /\ users' = users
       /\ Len(bt') < Len(bt)
            => /\ \E i \in 1..Len(bt), ok \in BOOLEAN : send_email(i, ok)
               /\ users' = users
               /\ last' = last]_vars

\* The mail task of a signup has run without delivering the mail: the signup
\* response and the new user are as the signup left them.
C26_Witness ==
    /\ last.op = "signup"
    /\ last.status = 201
    /\ bt = <<>>
    /\ issued = {}
    /\ users[last.user.email] # None
    /\ ~users[last.user.email].confirmed

-----------------------------------------------------------------------------
(* Properties of the error answers *)

\* C28: get-by-id, update and delete of an id under which the current user
\* has no contact are each answered 404 'Contact not found' and change no
\* row.
C28_MissingContactNotFound ==
    \A t \in ValidTokens, c \in UpCaches, id \in ContactIds :
       ~Owned(id, UidOf(t))
       => LET g == get_contact_by_id(id, t, users, c, contacts, now)
              d == delete_contact(id, t, users, c, contacts, now)
          IN /\ g.resp.status = 404 /\ g.resp.detail = CONTACT_NOT_FOUND
             /\ g.contacts = contacts
             /\ \A b \in UpdateBodies :
                  LET u == update_contact(id, b, t, users, c, contacts, now) IN
                  /\ u.resp.status = 404 /\ u.resp.detail = CONTACT_NOT_FOUND
                  /\ u.contacts = contacts
             /\ d.resp.status = 404 /\ d.resp.detail = CONTACT_NOT_FOUND
             /\ d.contacts = contacts

\* C29: confirmed_email answers every token with 200 or with 400
\* 'Verification error': 400 when the signature is not the service's, when
\* exp has passed and when the subject is not a registered user; a token
\* that is not answered 200 leaves the users table as it is.
C29_ConfirmEmailOutcomes ==
    \A t \in Presentable :
       LET r == confirmed_email(t, users, now) IN
       /\ r.resp.status \in {200, 400}
       /\ r.resp.status = 400 => r.resp.detail = "Verification error"
       /\ ( \/ ~jwt_decode(t, SECRET_KEY, now).ok
            \/ ~Registered(t.payload.sub) )
          => r.resp.status = 400
       /\ r.resp.status # 200 => r.db = users

-----------------------------------------------------------------------------
(* Properties of the life of a user *)

\* C30: a user row, once there, stays with the same id and email; a new row
\* starts unconfirmed; a confirmed row stays confirmed, whatever request or
\* background task runs.
C30_LifecycleMonotone ==
    [][\A e \in Emails :
         /\ Registered(e)
               => /\ users'[e] # None
                  /\ users'[e].email = users[e].email
                  /\ users'[e].id = users[e].id
                  /\ users[e].confirmed => users'[e].confirmed
         /\ (~Registered(e) /\ users'[e] # None)
               => /\ ~users'[e].confirmed
                  /\ users'[e].email = e
                  /\ last'.op = "signup"]_vars

\* A confirmed user who has created a contact and logged in again after the
\* clock moved on was refused a refresh: the user is still there and
\* confirmed.
C30_Witness ==
    /\ last.op = "refresh_token"
    /\ last.status = 401
    /\ contacts # <<>>
    /\ now > 0
    /\ \E e \in Emails :
         /\ Confirmed(e)
         /\ users[e].email = e
         /\ users[e].refresh_token # None
         /\ users[e].refresh_token.payload.iat = now

-----------------------------------------------------------------------------
(* Properties of the token makers *)

\* C31: a token made with an expires_delta of 0 or more seconds has exp equal
\* to its issue time plus expires_delta; the default lifetime of its kind is
\* used only when no expires_delta is given.
C31_ExpiresDeltaHonoured ==
    last.op \in {"create_access_token", "create_refresh_token"}
    => LET p == last.token.payload IN
       IF last.expires_delta # NoDelta
       THEN p.exp = p.iat + last.expires_delta
       ELSE p.exp = p.iat + Lifetime(p.scope)

-----------------------------------------------------------------------------
(* Properties of sessions and confirmation *)

\* The access and refresh tokens handed out so far.
SessionTokens ==
    {t \in issued : t.payload.scope \in {"access_token", "refresh_token"}}

\* C32: every user with a stored refresh token is confirmed, and the subject
\* of every access or refresh token handed out is a registered, confirmed
\* user.
C32_SessionsOnlyForConfirmed ==
    /\ \A e \in Emails :
         (Registered(e) /\ users[e].refresh_token # None) => Confirmed(e)
    /\ \A t \in SessionTokens :
         Registered(t.payload.sub) /\ Confirmed(t.payload.sub)

\* One user holds a session and has refreshed it while the other has signed
\* up, is not confirmed and was refused a login.
C32_Witness ==
    /\ last.op = "login"
    /\ last.detail = "Email not confirmed"
    /\ \E e, f \in Emails :
         /\ Registered(e) /\ users[e].refresh_token # None
         /\ RefreshTokensOf(e, issued) # {}
         /\ Registered(f) /\ ~Confirmed(f) /\ users[f].refresh_token = None

\* The row of e goes from unconfirmed to confirmed in this step.
Flip(e) == Registered(e) /\ ~users[e].confirmed /\ users'[e].confirmed

\* C33: a user goes from unconfirmed to confirmed only in a confirmed_email
\* request whose token was made by create_email_token for that user's
\* address; no access or refresh token handed out would flip any user.
C33_OnlyEmailTokenConfirms ==
    /\ [](\A t \in SessionTokens : confirmed_email(t, users, now).db = users)
    /\ [][\A e \in Emails :
            Flip(e)
            => /\ last'.op = "confirmed_email"
               /\ \E t \in Presentable : GetConfirmedEmail(t)
               /\ \A t \in Presentable :
                    GetConfirmedEmail(t)
                    => /\ t = create_email_token([sub |-> e],
                                                 t.payload.exp - EMAIL_TOKEN_TTL,
                                                 t.payload.iat)
                       /\ t.payload.iat <= now
                       /\ t \in issued]_vars

\* A user has just been confirmed while another user's access and refresh
\* tokens are in clients' hands.
C33_Witness ==
    /\ last.op = "confirmed_email"
    /\ last.detail = "Email confirmed"
    /\ SessionTokens # {}
    /\ \E e \in Emails : Confirmed(e) /\ users[e].refresh_token = None

\* C34: a refresh token or a confirmation token presented as bearer to a
\* contact operation resolves no current user, and no contact is returned or
\* written; an access token or a confirmation token presented to refresh is
\* answered with no pair and leaves every stored refresh token as it is.
C34_ScopeSeparation ==
    /\ \A t \in issued, c \in CacheStates(users) :
         t.payload.scope # "access_token"
         => \A r \in ContactResults(t, c) :
               /\ r.resp.status \notin {200, 201, 204}
               /\ r.resp.current_user = None
               /\ r.resp.body = None
               /\ r.contacts = contacts
    /\ \A t \in issued :
         t.payload.scope # "refresh_token"
         => LET r == refresh_token(t, users, now) IN
            /\ r.resp.status # 200
            /\ r.resp.access_token = None /\ r.resp.refresh_token = None
            /\ r.out = {}
            /\ r.db = users

\* In the second the tokens were made, with a contact in the table, an
\* update was refused with 401: its bearer was not an access token.
C34_Witness ==
    /\ last.op = "update_contact"
    /\ last.status = 401
    /\ last.current_user = None
    /\ now = 0
    /\ \E id \in 1..Len(contacts) : contacts[id] # None
    /\ \E t \in PresentableApi :
         /\ t \in issued
         /\ t.payload.scope = "refresh_token"
         /\ \A c \in UpCaches, i \in ContactIds, b \in UpdateBodies :
              update_contact(i, b, t, users, c, contacts, now).resp = last

\* The users table with the stored refresh token and the confirmed flag of
\* e set to other values.
WithSession(db, e, token, confirmed) ==
    [db EXCEPT ![e] = [db[e] EXCEPT !.refresh_token = token,
                                    !.confirmed = confirmed]]

\* C35: an unexpired access token of a user resolves to that user in every
\* state, so also after a later login, a refresh, or a refused refresh that
\* cleared the stored refresh token; what is stored as refresh token and
\* the confirmed flag make no difference to the resolution.
C35_AccessTokenNotRevoked ==
    \A t \in issued :
       ( /\ t.payload.scope = "access_token"
         /\ jwt_decode(t, SECRET_KEY, now).ok )
       => LET e == t.payload.sub
              r == get_current_user(t, users, EmptyCache, now)
          IN /\ r.status = 200
             /\ r.user = users[e]
             /\ r.user.email = e
             /\ \A s \in {None} \cup issued, f \in BOOLEAN :
                  LET v == get_current_user(t, WithSession(users, e, s, f),
                                            EmptyCache, now)
                  IN /\ v.status = 200
                     /\ v.user.email = e
                     /\ v.user.id = r.user.id

\* A refused refresh has cleared the stored refresh token of a user who holds
\* an unexpired access token, made before a later login.
C35_Witness ==
    /\ last.op = "refresh_token"
    /\ last.detail = "Invalid refresh token"
    /\ \E t \in issued :
         /\ t.payload.scope = "access_token"
         /\ jwt_decode(t, SECRET_KEY, now).ok
         /\ t.payload.iat < now
         /\ users[t.payload.sub].refresh_token = None

-----------------------------------------------------------------------------
(* Properties of concurrent requests *)

\* The refresh request i has read its user and has not answered yet.
InFlight(i) == reqs[i].pc \in {"read", "clear", "store"}

\* The last request answered was a login of e that stored the token it
\* returned, and every refresh request in flight read its user before that
\* login wrote: no request has been received since the login completed.
LoginJustCompleted(e) ==
    /\ last.op = "login"
    /\ last.status = 200
    /\ last.refresh_token.payload.sub = e
    /\ users[e].refresh_token = last.refresh_token
    /\ \A j \in ReqIds :
         InFlight(j) => reqs[j].user.refresh_token # last.refresh_token

\* C36: after a login of a user has completed, a refresh request of that
\* user that was received before with a token that is not the stored one
\* leaves the stored refresh token equal to the token the login returned.
C36_StaleRefreshKeepsLoginToken ==
    [][\A i \in ReqIds :
         ( /\ LoginJustCompleted(ConcUser)
           /\ InFlight(i)
           /\ reqs[i].token # reqs[i].user.refresh_token
           /\ RefreshCompare(i) \/ RefreshCommit(i) )
         => users'[ConcUser].refresh_token = last.refresh_token]_vars

\* C37: of two signup requests with the same address that both made the
\* existence check while the address was unregistered, one is answered 201
\* and the other 409 'Account already exists', and one user holds the address.
C37_ConcurrentSignupOne201One409 ==
    \A i, j \in ReqIds :
       ( /\ i # j
         /\ reqs[i].pc = "done" /\ reqs[j].pc = "done"
         /\ reqs[i].body.email = reqs[j].body.email
         /\ reqs[i].status = 201 )
       => /\ Registered(reqs[i].body.email)
          /\ reqs[j].status = 409
          /\ reqs[j].detail = ACCOUNT_EXIST

\* C38: the owner of a contact is the user whose access token created it,
\* for as long as the row exists: create_contact sets user_id to the current
\* user's id whatever owner the supplied data name, a row appears only in a
\* create answered 201 and carries the id of the user its token resolves to,
\* and no request changes the user_id of a row.
C38_OwnerIsCreator ==
    /\ [](\A t \in ValidTokens, b \in CreateBodies, e \in Emails :
            Registered(e) =>
              LET given == [f \in DOMAIN b \cup {"user_id"} |->
                              IF f = "user_id" THEN users[e].id ELSE b[f]]
                  r == repo_create_contact(given, contacts, UidOf(t))
              IN /\ r.contact.user_id = UidOf(t)
                 /\ r.db[Len(r.db)].user_id = UidOf(t))
    /\ [][\A id \in 1..Len(contacts') :
            contacts'[id] # None =>
              IF id <= Len(contacts)
              THEN /\ contacts[id] # None
                   /\ contacts'[id].user_id = contacts[id].user_id
              ELSE /\ last'.op = "create_contact"
                   /\ last'.status = 201
                   /\ last'.body = contacts'[id]
                   /\ contacts'[id].user_id = last'.current_user.id
                   /\ \E t \in ValidTokens : UidOf(t) = contacts'[id].user_id
                   /\ \A t \in ValidTokens, c \in UpCaches, b \in CreateBodies :
                        PostContact(FALSE, b, t, c)
                          => contacts'[id].user_id = UidOf(t)]_vars

\* A contact created by one user has been updated while the other user is
\* logged in too, and still carries its creator's id.
C38_Witness ==
    /\ last.op = "update_contact"
    /\ last.status = 200
    /\ last.body.user_id = last.current_user.id
    /\ \E id \in 1..Len(contacts) :
         /\ contacts[id] = last.body
         /\ \E b \in UpdateBodies : \A f \in DOMAIN b : contacts[id][f] = b[f]
    /\ \E t \in ValidTokens : UidOf(t) # last.body.user_id

====
